---- MODULE Spec2Model ----
(***************************************************************************)
(* Realtime notification and session-correlation core of the student       *)
(* check-in server: the WebSocketManager registry, the per-connection      *)
(* message handler, the check-in / remedial-completion handlers, the       *)
(* simulated approval timer and the two HTTP approval endpoints.           *)
(*                                                                         *)
(* Every connection handler is cut at its awaits: the synchronous prefix   *)
(* is one action, the awaited database call is one action, and the         *)
(* continuation that runs after it is one action.  A timer callback or an  *)
(* HTTP request starts at an arbitrary instant and reads nothing shared    *)
(* before its first database call, so its start and that call are one      *)
(* action.                                                                 *)
(*                                                                         *)
(* Spec is the server with its tables.  SpecPull adds the                  *)
(* pending-interventions query to one session's run.  SpecNoDb is the      *)
(* other build of the server, which keeps no tables and can hand the       *)
(* review to the external service.  SpecLate is the server with its tables *)
(* in a run where an HTTP approval can come after the completion report.   *)
(***************************************************************************)
EXTENDS Integers, Sequences, FiniteSets, TLC

\* ---------------------------------------------------------------- bounds
MaxConns == 2        \* WebSocket connections ever accepted
MaxConnects == 2     \* "connect" messages ever received (all connections)
MaxCheckins == 1     \* "daily_checkin" messages ever received
MaxRemedials == 1    \* "remedial_completed" messages ever received
MaxOthers == 1       \* unparsable or unknown messages ever received
MaxHttp == 1         \* HTTP approval requests ever received
MaxDbFailures == 1   \* database calls that ever reject for an outside reason
MaxPulls == 1        \* pending-interventions queries ever received
MaxQuizScore == 8    \* largest quizScore of a check-in
MaxFocusMinutes == 61 \* largest focusMinutes of a check-in

\* What one run of the server is given: how many connections, messages of
\* each type, HTTP approval requests, database rejections and
\* pending-interventions queries occur in it, and which (quizScore,
\* focusMinutes) its check-ins carry.  A run is explored under each scope of
\* its specification.
Quota(conns, connects, checkins, remedials, others, http, rejects, pulls, scores) ==
    [conns |-> conns, connects |-> connects, checkins |-> checkins,
     remedials |-> remedials, others |-> others, http |-> http, rejects |-> rejects,
     pulls |-> pulls, scores |-> scores]

\* (quizScore, focusMinutes) of the check-ins sent: one pair that is not on
\* track and one that is
CheckinInputs == {<<5, 40>>, <<7, 60>>}

\* Scores below, at and above the two thresholds, zero and a negative one
ScoreInputs ==
    ({-1, 0} \cup (6..MaxQuizScore)) \X ({-1, 0} \cup (59..MaxFocusMinutes))

Scopes ==
    { \* sessions and the registry: many connects, no domain traffic
      Quota(MaxConns, MaxConnects + 1, 0, 0, MaxOthers, 0, 0, 0, CheckinInputs),
      \* a check-in and its review decision, over two connections
      Quota(MaxConns, MaxConnects, MaxCheckins, 0, 0, MaxHttp, MaxDbFailures, 0,
            CheckinInputs),
      \* several messages in flight on one connection
      Quota(MaxConns - 1, MaxConnects - 1, MaxCheckins + 1, 0, MaxOthers, 0,
            MaxDbFailures, 0, CheckinInputs),
      \* a completion report from either of two sessions
      Quota(MaxConns, MaxConnects, MaxCheckins, MaxRemedials, 0, 0, 0, 0,
            CheckinInputs),
      \* repeated completion reports on one connection
      Quota(MaxConns - 1, MaxConnects - 1, MaxCheckins, MaxRemedials + 1, 0,
            0, MaxDbFailures, 0, CheckinInputs),
      \* one check-in with scores around the thresholds
      Quota(MaxConns - 1, MaxConnects - 1, MaxCheckins, 0, 0, 0, MaxDbFailures, 0,
            ScoreInputs) }

\* ------------------------------------------------------------ input sets
Students == {"S1", "S2"}
Conns == 1..MaxConns
NULL == "null"
NoConn == 0

\* A bearer token: the identity it encodes and whether jwt.verify accepts it
\* (the signature matches JWT_SECRET and the token has not expired)
Tokens == [studentId : Students, valid : BOOLEAN]

VARIABLES
    scope,          \* the quota of this run (never changes)
    readyState,     \* ws.readyState of each connection
    destroyed,      \* the transport under the connection is gone (after an error)
    studentId,      \* the closure variable `studentId` of each connection
    connections,    \* WebSocketManager.connections : identity -> connection
    lastBind,       \* the connection of the latest addConnection of each identity
    recv,           \* the types of the messages each connection received, in order
    out,            \* the ws.send calls made on each connection, in order
    tasks,          \* async operations suspended at an await
    timers,         \* pending setTimeout callbacks of simulateN8nApproval
    dailyLogs,      \* table daily_logs (logId = position)
    interventions,  \* table interventions (interventionId = position)
    sendLog,        \* the sendToStudent calls of the decision paths, in order
    httpCount,      \* HTTP approval requests received so far
    pulls,          \* the answers to the pending-interventions queries, in order
    webhooks,       \* the calls of triggerN8nWebhook and their outcome, in order
    dbFailures      \* database calls that rejected for an outside reason so far

vars == <<scope, readyState, destroyed, studentId, connections, lastBind, recv, out, tasks,
          timers, dailyLogs, interventions, sendLog, httpCount, pulls, webhooks,
          dbFailures>>

sessionVars == <<scope, readyState, destroyed, studentId, connections, lastBind, recv>>
dbVars == <<dailyLogs, interventions, dbFailures>>

\* ------------------------------------------------------------- helpers
\* How many messages of the given types have been received so far
RECURSIVE CountIn(_, _)
CountIn(seq, types) ==
    IF seq = <<>> THEN 0
    ELSE (IF Head(seq) \in types THEN 1 ELSE 0) + CountIn(Tail(seq), types)

RECURSIVE Received(_, _)
Received(types, cs) ==
    IF cs = {} THEN 0
    ELSE LET c == CHOOSE d \in cs : TRUE
         IN CountIn(recv[c], types) + Received(types, cs \ {c})

\* The quota of messages of m's type has not been used up
WithinQuota(m) ==
    CASE m.type = "connect" -> Received({"connect"}, Conns) < scope.connects
      [] m.type = "daily_checkin" -> Received({"daily_checkin"}, Conns) < scope.checkins
      [] m.type = "remedial_completed" ->
             Received({"remedial_completed"}, Conns) < scope.remedials
      [] OTHER -> Received({"malformed", "unknown"}, Conns) < scope.others

\* WebSocketManager.verifyToken: the encoded identity, or null when jwt.verify throws
verifyToken(token) ==
    IF token.valid THEN token.studentId ELSE NULL

\* A registry that keeps the first socket of an identity
addConnectionKeepFirst(reg, s, c) ==
    IF reg[s] # NoConn THEN reg ELSE [reg EXCEPT ![s] = c]

\* WebSocketManager.addConnection: Map.set(studentId, socket)
addConnection(reg, s, c) == [reg EXCEPT ![s] = c]

\* WebSocketManager.removeConnection: Map.delete(studentId)
removeConnection(reg, s) == [reg EXCEPT ![s] = NoConn]

\* WebSocketManager.getConnection
getConnection(reg, s) == reg[s]

\* The test without the readyState: any registered socket is written to
CanSendRegistered(reg, rs, s) == reg[s] # NoConn

\* The test of sendToStudent: a socket is registered and its readyState is OPEN
CanSend(reg, rs, s) == reg[s] # NoConn /\ rs[reg[s]] = "OPEN"

\* WebSocketManager.isConnected
isConnected(s) == CanSend(connections, readyState, s)

\* A ws.send call.  seq is the number of the received message it answers (0
\* for a pushed event); studentId and interventionId are those of the request
\* it answers or of the event it carries.
Frame(type, seq, s, iid, text) ==
    [type |-> type, seq |-> seq, studentId |-> s, interventionId |-> iid,
     text |-> text, written |-> FALSE]

\* ws.send on connection c: the frame is written only while the socket is OPEN;
\* on a CLOSING or CLOSED socket the data is dropped without an exception.
\* The log keeps the call and whether the channel took it.
WsSend(o, rs, c, m) ==
    [o EXCEPT ![c] = Append(@, [m EXCEPT !.written = (rs[c] = "OPEN")])]

\* A suspended async operation.  kind says which handler it belongs to and
\* phase which await it is parked on; the other fields are the handler's local
\* variables (conn is NoConn for the timer and the HTTP handlers, whose seq is
\* the request number).
Task(kind, phase, c, seq, s, iid, qs, fm, text) ==
    [kind |-> kind, phase |-> phase, conn |-> c, seq |-> seq, studentId |-> s,
     interventionId |-> iid, quizScore |-> qs, focusMinutes |-> fm,
     assignedTasks |-> text, failed |-> FALSE, count |-> 0]

\* A row that is created with its task already assigned
RowAssigned(s) ==
    [studentId |-> s, taskAssigned |-> TRUE, assignedTasks |-> NULL,
     completed |-> FALSE, updatedAt |-> 0]

\* A new row of table interventions; updatedAt counts the writes to the row
Row(s) ==
    [studentId |-> s, taskAssigned |-> FALSE, assignedTasks |-> NULL,
     completed |-> FALSE, updatedAt |-> 0]

\* ------------------------------------------------------------- messages
\* Envelopes a peer can send.  An envelope that JSON.parse rejects, or a
\* "connect" without a payload, is "malformed".
ConnectMsgs == [type : {"connect"}, token : Tokens]
CheckinMsgs == [type : {"daily_checkin"}, scores : scope.scores, missing : BOOLEAN]
RemedialMsgs == [type : {"remedial_completed"},
                 interventionId : 0..(Len(interventions) + 1)]
OtherMsgs == [type : {"malformed", "unknown"}]

\* ------------------------------------------------------------------ Init
\* The state after start-up, for a run under one of the given scopes
Start(scopes) ==
    /\ scope \in scopes
    /\ readyState = [c \in Conns |-> "NEW"]
    /\ destroyed = [c \in Conns |-> FALSE]
    /\ studentId = [c \in Conns |-> NULL]
    /\ connections = [s \in Students |-> NoConn]
    /\ lastBind = [s \in Students |-> NoConn]
    /\ recv = [c \in Conns |-> <<>>]
    /\ out = [c \in Conns |-> <<>>]
    /\ tasks = {}
    /\ timers = {}
    /\ dailyLogs = <<>>
    /\ interventions = <<>>
    /\ sendLog = <<>>
    /\ httpCount = 0
    /\ pulls = <<>>
    /\ webhooks = <<>>
    /\ dbFailures = 0

Init == Start(Scopes)

\* ------------------------------------------------------------- sessions
\* wss.on("connection"): a new session, `let studentId = null`
OnConnection(c) ==
    /\ readyState[c] = "NEW"
    /\ c <= scope.conns
    /\ \A d \in Conns : d < c => readyState[d] # "NEW"
    /\ readyState' = [readyState EXCEPT ![c] = "OPEN"]
    /\ UNCHANGED <<scope, destroyed, studentId, connections, lastBind, recv, out, tasks,
                   timers, sendLog, pulls, webhooks, httpCount, dbVars>>

\* A "message" event can be emitted on c: the socket is OPEN, or the server has
\* called ws.close() and the peer has not answered the close frame yet
CanReceive(c) ==
    /\ readyState[c] \in {"OPEN", "CLOSING"}
    /\ ~destroyed[c]

\* The guard left out: domain messages go ahead without an identity
NotAuthenticatedSkipped(c) == FALSE

\* The guard `if (!studentId)` of the domain message cases
NotAuthenticated(c) == studentId[c] = NULL

\* case "connect"
HandleConnect(c, m) ==
    LET sid == verifyToken(m.token) IN
    /\ studentId' = [studentId EXCEPT ![c] = sid]
    /\ IF sid = NULL
       THEN /\ out' = WsSend(out, readyState, c,
                             Frame("error", Len(recv[c]) + 1, NULL, 0, "Invalid token"))
            /\ readyState' = [readyState EXCEPT
                                ![c] = IF @ = "OPEN" THEN "CLOSING" ELSE @]
            /\ UNCHANGED <<connections, lastBind>>
       ELSE /\ connections' = addConnection(connections, sid, c)
            /\ lastBind' = [lastBind EXCEPT ![sid] = c]
            /\ out' = WsSend(out, readyState, c,
                             Frame("connected", Len(recv[c]) + 1, sid, 0,
                                   "Successfully connected"))
            /\ UNCHANGED readyState
    /\ UNCHANGED tasks

\* The comparison with the quiz threshold made strict
isOnTrackStrict(quizScore, focusMinutes) == quizScore > 7 /\ focusMinutes >= 60

\* quizScore >= 7 && focusMinutes >= 60
isOnTrack(quizScore, focusMinutes) == quizScore >= 7 /\ focusMinutes >= 60

\* case "daily_checkin" and handleDailyCheckin up to its await
HandleCheckin(c, m) ==
    /\ UNCHANGED <<studentId, connections, lastBind, readyState>>
    /\ IF NotAuthenticated(c)
       THEN /\ out' = WsSend(out, readyState, c,
                             Frame("error", Len(recv[c]) + 1, NULL, 0, "Not authenticated"))
            /\ UNCHANGED tasks
       ELSE IF m.missing
       THEN /\ out' = WsSend(out, readyState, c,
                             Frame("error", Len(recv[c]) + 1, studentId[c], 0,
                                   "quizScore and focusMinutes are required"))
            /\ UNCHANGED tasks
       ELSE /\ tasks' = tasks \cup
                  {Task("checkin",
                        IF isOnTrack(m.scores[1], m.scores[2])
                        THEN "create" ELSE "transaction",
                        c, Len(recv[c]) + 1, studentId[c], 0,
                        m.scores[1], m.scores[2], NULL)}
            /\ UNCHANGED out

\* case "remedial_completed" and handleRemedialCompletion up to its await
HandleRemedial(c, m) ==
    /\ UNCHANGED <<studentId, connections, lastBind, readyState>>
    /\ IF NotAuthenticated(c)
       THEN /\ out' = WsSend(out, readyState, c,
                             Frame("error", Len(recv[c]) + 1, NULL, 0, "Not authenticated"))
            /\ UNCHANGED tasks
       ELSE IF m.interventionId = 0
       THEN /\ out' = WsSend(out, readyState, c,
                             Frame("error", Len(recv[c]) + 1, studentId[c], 0,
                                   "interventionId is required"))
            /\ UNCHANGED tasks
       ELSE /\ tasks' = tasks \cup
                  {Task("remedial", "updateMany", c, Len(recv[c]) + 1, studentId[c],
                        m.interventionId, 0, 0, NULL)}
            /\ UNCHANGED out

\* A handler that ends the session after the error, as the rejection of a
\* credential does
HandleOtherClosing(c, m) ==
    /\ out' = WsSend(out, readyState, c,
                     Frame("error", Len(recv[c]) + 1, NULL, 0,
                           IF m.type = "malformed" THEN "Invalid message format"
                           ELSE "Unknown message type"))
    /\ readyState' = [readyState EXCEPT ![c] = IF @ = "OPEN" THEN "CLOSING" ELSE @]
    /\ UNCHANGED <<studentId, connections, lastBind, tasks>>

\* default case, and the catch block of the message handler
HandleOther(c, m) ==
    /\ out' = WsSend(out, readyState, c,
                     Frame("error", Len(recv[c]) + 1, NULL, 0,
                           IF m.type = "malformed" THEN "Invalid message format"
                           ELSE "Unknown message type"))
    /\ UNCHANGED <<studentId, connections, lastBind, readyState, tasks>>

\* ws.on("message"): the synchronous part of the handler
OnMessage(c) ==
    /\ CanReceive(c)
    /\ \E m \in ConnectMsgs \cup CheckinMsgs \cup RemedialMsgs \cup OtherMsgs :
          /\ WithinQuota(m)
          /\ recv' = [recv EXCEPT ![c] = Append(@, m.type)]
          /\ CASE m.type = "connect" -> HandleConnect(c, m)
               [] m.type = "daily_checkin" -> HandleCheckin(c, m)
               [] m.type = "remedial_completed" -> HandleRemedial(c, m)
               [] OTHER -> HandleOther(c, m)
    /\ UNCHANGED <<scope, destroyed, timers, sendLog, pulls, webhooks, httpCount, dbVars>>

\* ws.on("close"): the socket is CLOSED when the handler runs
OnClose(c) ==
    /\ readyState[c] \in {"OPEN", "CLOSING"}
    /\ readyState' = [readyState EXCEPT ![c] = "CLOSED"]
    /\ connections' = IF studentId[c] # NULL
                      THEN removeConnection(connections, studentId[c])
                      ELSE connections
    /\ UNCHANGED <<scope, destroyed, studentId, lastBind, recv, out, tasks, timers,
                   sendLog, pulls, webhooks, httpCount, dbVars>>

\* ws.on("error"): only logs; the library has moved the socket to CLOSING,
\* destroys the transport, and "close" follows
OnError(c) ==
    /\ readyState[c] \in {"OPEN", "CLOSING"}
    /\ ~destroyed[c]
    /\ readyState' = [readyState EXCEPT ![c] = "CLOSING"]
    /\ destroyed' = [destroyed EXCEPT ![c] = TRUE]
    /\ UNCHANGED <<scope, studentId, connections, lastBind, recv, out, tasks, timers,
                   sendLog, pulls, webhooks, httpCount, dbVars>>

\* ------------------------------------------------------------ database
\* A database call rejects for a reason outside the program (connection lost,
\* timeout): possible at any call, counted against the quota
DbRejects ==
    /\ dbFailures < scope.rejects
    /\ dbFailures' = dbFailures + 1

\* The task t moves on to the tasks u (or ends when u is empty)
Replace(t, u) == tasks' = (tasks \ {t}) \cup u

\* status = isOnTrack ? "On Track" : "Pending Mentor Review"
StatusOf(t) ==
    IF isOnTrack(t.quizScore, t.focusMinutes) THEN "On Track" ELSE "Pending Mentor Review"

LogRow(t) ==
    [studentId |-> t.studentId, quizScore |-> t.quizScore,
     focusMinutes |-> t.focusMinutes, status |-> StatusOf(t)]

\* ------------------------------------------------------------ check-in
SIMULATION_MODE == TRUE

\* await prisma.dailyLog.create of the on-track branch
DbCreateLog(t) ==
    /\ t.kind = "checkin" /\ t.phase = "create"
    /\ \/ /\ dailyLogs' = Append(dailyLogs, LogRow(t))
          /\ Replace(t, {[t EXCEPT !.phase = "resume"]})
          /\ UNCHANGED dbFailures
       \/ /\ DbRejects
          /\ UNCHANGED dailyLogs
          /\ Replace(t, {[t EXCEPT !.phase = "resume", !.failed = TRUE]})
    /\ UNCHANGED <<sessionVars, out, timers, interventions, sendLog, pulls, webhooks, httpCount>>

\* The two creates awaited one after the other without a transaction: when the
\* second rejects, the row of the first stays
DbTransactionNoRollback(t) ==
    /\ t.kind = "checkin" /\ t.phase = "transaction"
    /\ \/ /\ dailyLogs' = Append(dailyLogs, LogRow(t))
          /\ interventions' = Append(interventions, Row(t.studentId))
          /\ Replace(t, {[t EXCEPT !.phase = "resume",
                                   !.interventionId = Len(interventions) + 1]})
          /\ UNCHANGED dbFailures
       \/ /\ DbRejects
          /\ dailyLogs' = Append(dailyLogs, LogRow(t))
          /\ UNCHANGED interventions
          /\ Replace(t, {[t EXCEPT !.phase = "resume", !.failed = TRUE]})
    /\ UNCHANGED <<sessionVars, out, timers, sendLog, pulls, webhooks, httpCount>>

\* await prisma.$transaction(tx.dailyLog.create; tx.intervention.create).
\* The rows are private to the transaction until it commits, so both become
\* visible together; a rejection of either statement rolls both back.
DbTransaction(t) ==
    /\ t.kind = "checkin" /\ t.phase = "transaction"
    /\ \/ /\ dailyLogs' = Append(dailyLogs, LogRow(t))
          /\ interventions' = Append(interventions, Row(t.studentId))
          /\ Replace(t, {[t EXCEPT !.phase = "resume",
                                   !.interventionId = Len(interventions) + 1]})
          /\ UNCHANGED dbFailures
       \/ /\ DbRejects
          /\ UNCHANGED <<dailyLogs, interventions>>
          /\ Replace(t, {[t EXCEPT !.phase = "resume", !.failed = TRUE]})
    /\ UNCHANGED <<sessionVars, out, timers, sendLog, pulls, webhooks, httpCount>>

\* handleDailyCheckin after its await: the response, then simulateN8nApproval
\* (setTimeout) when the check-in is not on track; the catch block on a rejection
ResumeCheckin(t) ==
    /\ t.kind = "checkin" /\ t.phase = "resume"
    /\ Replace(t, {})
    /\ IF t.failed
       THEN /\ out' = WsSend(out, readyState, t.conn,
                             Frame("error", t.seq, t.studentId, 0,
                                   "Failed to process daily check-in"))
            /\ UNCHANGED timers
       ELSE /\ out' = WsSend(out, readyState, t.conn,
                             Frame("checkin_result", t.seq, t.studentId,
                                   t.interventionId, StatusOf(t)))
            /\ timers' = IF ~isOnTrack(t.quizScore, t.focusMinutes) /\ SIMULATION_MODE
                         THEN timers \cup {[t EXCEPT !.kind = "timer", !.phase = "timeout",
                                                     !.conn = NoConn, !.seq = 0]}
                         ELSE timers
    /\ UNCHANGED <<sessionVars, sendLog, pulls, webhooks, httpCount, dbVars>>

\* ---------------------------------------------------- review decisions
\* The three-way rule of simulateN8nApproval
RemedialText(quizScore, focusMinutes) ==
    IF quizScore < 7 /\ focusMinutes < 60 THEN "combined"
    ELSE IF quizScore < 7 THEN "quiz"
    ELSE "focus"

\* A write that replaces the row instead of updating the two fields
UpdateAssignedFresh(rows, iid, text) ==
    [rows EXCEPT ![iid] = [@ EXCEPT !.taskAssigned = TRUE, !.assignedTasks = text,
                                    !.completed = FALSE, !.updatedAt = @ + 1]]

\* The write of prisma.intervention.update({where: {interventionId}, data})
UpdateAssigned(rows, iid, text) ==
    [rows EXCEPT ![iid] = [@ EXCEPT !.taskAssigned = TRUE, !.assignedTasks = text,
                                    !.updatedAt = @ + 1]]

\* await prisma.intervention.update for the decision u: the row is written and
\* u parks before its continuation.  The call rejects when there is no such
\* row (or for an outside reason); the catch block then only logs or answers
\* 500, so the handler is over.
RunUpdate(u) ==
    \/ /\ u.interventionId \in DOMAIN interventions
       /\ interventions' = UpdateAssigned(interventions, u.interventionId, u.assignedTasks)
       /\ tasks' = (tasks \ {u}) \cup {[u EXCEPT !.phase = "resume"]}
       /\ UNCHANGED dbFailures
    \/ /\ u.interventionId \notin DOMAIN interventions
       /\ tasks' = tasks \ {u}
       /\ UNCHANGED <<interventions, dbFailures>>
    \/ /\ DbRejects
       /\ tasks' = tasks \ {u}
       /\ UNCHANGED interventions

\* The setTimeout callback of simulateN8nApproval and its awaited update
TimerFire(t) ==
    /\ t \in timers
    /\ timers' = timers \ {t}
    /\ RunUpdate([t EXCEPT !.phase = "update",
                           !.assignedTasks = RemedialText(t.quizScore, t.focusMinutes)])
    /\ UNCHANGED <<sessionVars, out, dailyLogs, sendLog, pulls, webhooks, httpCount>>

\* POST /intervention/approve and its awaited update; 400 on a missing field
OnApprove(s, iid, text) ==
    /\ httpCount < scope.http
    /\ httpCount' = httpCount + 1
    /\ IF s = NULL \/ iid = 0 \/ text = NULL
       THEN UNCHANGED <<tasks, interventions, dbFailures>>
       ELSE RunUpdate(Task("approve", "update", NoConn, httpCount + 1, s, iid, 0, 0, text))
    /\ UNCHANGED <<sessionVars, out, timers, dailyLogs, sendLog, pulls, webhooks>>

\* POST /test/manual-approve and its awaited findUnique: 400 without an id,
\* 404 when there is no such row, 500 when the call rejects
OnManualApprove(iid, text) ==
    /\ httpCount < scope.http
    /\ httpCount' = httpCount + 1
    /\ IF iid \in DOMAIN interventions
       THEN \/ /\ tasks' = tasks \cup
                     {Task("manual", "update", NoConn, httpCount + 1,
                           interventions[iid].studentId, iid, 0, 0,
                           IF text = NULL THEN "manual" ELSE text)}
               /\ UNCHANGED dbFailures
            \/ /\ DbRejects
               /\ UNCHANGED tasks
       ELSE UNCHANGED <<tasks, dbFailures>>
    /\ UNCHANGED <<sessionVars, out, timers, dailyLogs, interventions, sendLog, pulls, webhooks>>

\* await prisma.intervention.update of manual-approve
DbUpdate(t) ==
    /\ t.kind = "manual" /\ t.phase = "update"
    /\ RunUpdate(t)
    /\ UNCHANGED <<sessionVars, out, timers, dailyLogs, sendLog, pulls, webhooks, httpCount>>

\* wsManager.sendToStudent(studentId, intervention_assigned) of a decision
\* path; the entry keeps which sessions of that identity were open at the call
Deliver(t) ==
    LET sent == CanSend(connections, readyState, t.studentId)
        c == getConnection(connections, t.studentId)
    IN /\ out' = IF sent
                 THEN WsSend(out, readyState, c,
                             Frame("intervention_assigned", 0, t.studentId,
                                   t.interventionId, t.assignedTasks))
                 ELSE out
       /\ sendLog' = Append(sendLog,
             [source |-> t.kind, studentId |-> t.studentId,
              interventionId |-> t.interventionId, assignedTasks |-> t.assignedTasks,
              sent |-> sent, conn |-> IF sent THEN c ELSE NoConn,
              openFor |-> {d \in Conns : readyState[d] = "OPEN" /\ studentId[d] = t.studentId}])

\* The continuation after the update: delivery
ResumeDecision(t) ==
    /\ t.kind \in {"timer", "approve", "manual"} /\ t.phase = "resume"
    /\ Replace(t, {})
    /\ Deliver(t)
    /\ UNCHANGED <<sessionVars, timers, httpCount, pulls, webhooks, dbVars>>

\* ------------------------------------------------- remedial completion
\* The filter without the owner: where: {interventionId, taskAssigned: true}
RemedialWhereAnyOwner(row, s) == row.taskAssigned

\* where: {interventionId, studentId, taskAssigned: true}
RemedialWhere(row, s) == row.studentId = s /\ row.taskAssigned

\* await prisma.intervention.updateMany: the matching rows get completed = true
DbUpdateMany(t) ==
    /\ t.kind = "remedial" /\ t.phase = "updateMany"
    /\ \/ LET hit == /\ t.interventionId \in DOMAIN interventions
                     /\ RemedialWhere(interventions[t.interventionId], t.studentId)
          IN /\ interventions' =
                  IF hit
                  THEN [interventions EXCEPT ![t.interventionId] =
                           [@ EXCEPT !.completed = TRUE, !.updatedAt = @ + 1]]
                  ELSE interventions
             /\ Replace(t, {[t EXCEPT !.phase = "resume",
                                      !.count = IF hit THEN 1 ELSE 0]})
             /\ UNCHANGED dbFailures
       \/ /\ DbRejects
          /\ UNCHANGED interventions
          /\ Replace(t, {[t EXCEPT !.phase = "resume", !.failed = TRUE]})
    /\ UNCHANGED <<sessionVars, out, timers, dailyLogs, sendLog, pulls, webhooks, httpCount>>

\* handleRemedialCompletion after its await
ResumeRemedial(t) ==
    /\ t.kind = "remedial" /\ t.phase = "resume"
    /\ Replace(t, {})
    /\ out' = WsSend(out, readyState, t.conn,
                 IF t.failed
                 THEN Frame("error", t.seq, t.studentId, t.interventionId,
                            "Failed to mark remedial as completed")
                 ELSE IF t.count = 0
                 THEN Frame("error", t.seq, t.studentId, t.interventionId,
                            "Invalid intervention or not assigned")
                 ELSE Frame("remedial_completed", t.seq, t.studentId,
                            t.interventionId, "normal"))
    /\ UNCHANGED <<sessionVars, timers, sendLog, pulls, webhooks, httpCount, dbVars>>

\* ------------------------------------------------------ pull queries
\* The Authorization header of an HTTP request: a bearer token, or none
NoToken == [studentId |-> NULL, valid |-> FALSE]
Headers == Tokens \cup {NoToken}

\* authenticateToken: 401 without a token, 403 when jwt.verify fails, else next()
authenticateToken(header) ==
    IF header = NoToken THEN 401
    ELSE IF ~header.valid THEN 403
    ELSE 200

\* The filter that takes "pending" for "not assigned yet"
PendingWhereUnassigned(row, s) ==
    row.studentId = s /\ ~row.taskAssigned /\ ~row.completed

\* where: {studentId, taskAssigned: true, completed: false}
PendingWhere(row, s) ==
    row.studentId = s /\ row.taskAssigned /\ ~row.completed

\* prisma.intervention.findMany({where, orderBy: {createdAt: "desc"}}): the
\* matching rows among the first n, the newest first (rows are created in the
\* order of their interventionId)
RECURSIVE findMany(_, _, _)
findMany(rows, s, n) ==
    IF n = 0 THEN <<>>
    ELSE (IF PendingWhere(rows[n], s)
          THEN <<[interventionId |-> n, assignedTasks |-> rows[n].assignedTasks]>>
          ELSE <<>>) \o findMany(rows, s, n - 1)

\* An answer of the query: res.status(code).json(...).  caller is the identity
\* that the middleware verified (req.user), null when it refused the request;
\* after is the number of sendToStudent calls the decision paths had made when
\* the table was read.
Answer(code, header, s, rows) ==
    [status |-> code, caller |-> verifyToken(header), studentId |-> s,
     pendingInterventions |-> rows, after |-> Len(sendLog)]

\* GET /students/:studentId/pending-interventions, with its middleware and its
\* awaited findMany: the answer is that of the instant the query reads the table
OnPendingQuery(header, s) ==
    /\ Len(pulls) < scope.pulls
    /\ LET code == authenticateToken(header)
       IN IF code # 200
          THEN /\ pulls' = Append(pulls, Answer(code, header, s, <<>>))
               /\ UNCHANGED dbFailures
          ELSE \/ /\ pulls' = Append(pulls,
                         Answer(200, header, s, findMany(interventions, s, Len(interventions))))
                  /\ UNCHANGED dbFailures
               \/ /\ DbRejects
                  /\ pulls' = Append(pulls, Answer(500, header, s, <<>>))
    /\ UNCHANGED <<sessionVars, out, tasks, timers, dailyLogs, interventions,
                   sendLog, httpCount, webhooks>>

\* ------------------------------------------- the build without tables
\* The other build of the server keeps no tables (its prisma calls are
\* commented out), takes SIMULATION_MODE from the environment and, when that is
\* not "true", hands the review to the external service: triggerN8nWebhook.
\* Its connection, close and error handlers are those above.

\* The default of the variable taken for "true"
SimulationDefaultOn == TRUE

\* (process.env.SIMULATION_MODE ?? "false") === "true"
SimulationEnv == scope.simulation

\* const interventionId = 123
StubInterventionId == 123

\* A call of triggerN8nWebhook for the check-in t: "posted" once axios.post has
\* resolved, "failed" once it has rejected, "no url" when N8N_WEBHOOK_URL is
\* not set and no request is made
Webhook(t, result) ==
    [conn |-> t.conn, seq |-> t.seq, studentId |-> t.studentId,
     interventionId |-> t.interventionId, quizScore |-> t.quizScore,
     focusMinutes |-> t.focusMinutes, result |-> result]

\* case "daily_checkin" with handleDailyCheckin, which awaits nothing: the
\* answer, then simulateN8nApproval (setTimeout) or triggerN8nWebhook up to its
\* awaited axios.post
HandleCheckinNoDb(c, m) ==
    LET t == Task("webhook", "post", c, Len(recv[c]) + 1, studentId[c],
                  StubInterventionId, m.scores[1], m.scores[2], NULL)
    IN /\ UNCHANGED <<studentId, connections, lastBind, readyState>>
       /\ IF NotAuthenticated(c)
          THEN /\ out' = WsSend(out, readyState, c,
                                Frame("error", Len(recv[c]) + 1, NULL, 0,
                                      "Not authenticated"))
               /\ UNCHANGED <<tasks, timers, webhooks>>
          ELSE IF m.missing
          THEN /\ out' = WsSend(out, readyState, c,
                                Frame("error", Len(recv[c]) + 1, studentId[c], 0,
                                      "quizScore and focusMinutes are required"))
               /\ UNCHANGED <<tasks, timers, webhooks>>
          ELSE IF isOnTrack(m.scores[1], m.scores[2])
          THEN /\ out' = WsSend(out, readyState, c,
                                Frame("checkin_result", Len(recv[c]) + 1, studentId[c],
                                      0, "On Track"))
               /\ UNCHANGED <<tasks, timers, webhooks>>
          ELSE /\ out' = WsSend(out, readyState, c,
                                Frame("checkin_result", Len(recv[c]) + 1, studentId[c],
                                      0, "Pending Mentor Review"))
               /\ IF SimulationEnv
                  THEN /\ timers' = timers \cup
                             {[t EXCEPT !.kind = "timer", !.phase = "timeout",
                                        !.conn = NoConn, !.seq = 0]}
                       /\ UNCHANGED <<tasks, webhooks>>
                  ELSE IF ~scope.n8nUrl
                  THEN /\ webhooks' = Append(webhooks, Webhook(t, "no url"))
                       /\ UNCHANGED <<tasks, timers>>
                  ELSE /\ webhooks' = Append(webhooks, Webhook(t, "pending"))
                       /\ tasks' = tasks \cup {t}
                       /\ UNCHANGED timers

\* case "remedial_completed" with handleRemedialCompletion, which awaits nothing
HandleRemedialNoDb(c, m) ==
    /\ UNCHANGED <<studentId, connections, lastBind, readyState, tasks, timers,
                   webhooks>>
    /\ out' = WsSend(out, readyState, c,
                 IF NotAuthenticated(c)
                 THEN Frame("error", Len(recv[c]) + 1, NULL, 0, "Not authenticated")
                 ELSE IF m.interventionId = 0
                 THEN Frame("error", Len(recv[c]) + 1, studentId[c], 0,
                            "interventionId is required")
                 ELSE Frame("remedial_completed", Len(recv[c]) + 1, studentId[c],
                            m.interventionId, "normal"))

\* ws.on("message") of this build
OnMessageNoDb(c) ==
    /\ CanReceive(c)
    /\ \E m \in ConnectMsgs \cup CheckinMsgs \cup RemedialMsgs \cup OtherMsgs :
          /\ WithinQuota(m)
          /\ recv' = [recv EXCEPT ![c] = Append(@, m.type)]
          /\ CASE m.type = "connect" ->
                      HandleConnect(c, m) /\ UNCHANGED <<timers, webhooks>>
               [] m.type = "daily_checkin" -> HandleCheckinNoDb(c, m)
               [] m.type = "remedial_completed" -> HandleRemedialNoDb(c, m)
               [] OTHER -> HandleOther(c, m) /\ UNCHANGED <<timers, webhooks>>
    /\ UNCHANGED <<scope, destroyed, sendLog, pulls, httpCount, dbVars>>

\* The entry of the call that t is
WebhookOf(t) ==
    CHOOSE k \in DOMAIN webhooks :
        webhooks[k].conn = t.conn /\ webhooks[k].seq = t.seq

\* await axios.post: the request resolves, or rejects and the catch block logs;
\* triggerN8nWebhook is over either way
AxiosAnswer(t) ==
    /\ t.kind = "webhook" /\ t.phase = "post"
    /\ Replace(t, {})
    /\ \E result \in {"posted", "failed"} :
          webhooks' = [webhooks EXCEPT ![WebhookOf(t)].result = result]
    /\ UNCHANGED <<sessionVars, out, timers, sendLog, pulls, httpCount, dbVars>>

\* The setTimeout callback of simulateN8nApproval, which awaits nothing
TimerFireNoDb(t) ==
    /\ t \in timers
    /\ timers' = timers \ {t}
    /\ Deliver([t EXCEPT !.assignedTasks = RemedialText(t.quizScore, t.focusMinutes)])
    /\ UNCHANGED <<sessionVars, tasks, pulls, webhooks, httpCount, dbVars>>

\* POST /intervention/approve of this build: 400 on a missing field, else the
\* delivery
OnApproveNoDb(s, iid, text) ==
    /\ httpCount < scope.http
    /\ httpCount' = httpCount + 1
    /\ IF s = NULL \/ iid = 0 \/ text = NULL
       THEN UNCHANGED <<out, sendLog>>
       ELSE Deliver(Task("approve", "resume", NoConn, httpCount + 1, s, iid, 0, 0, text))
    /\ UNCHANGED <<sessionVars, tasks, timers, pulls, webhooks, dbVars>>

\* ------------------------------------------------------- specification
Next ==
    \/ \E c \in Conns : OnConnection(c)
    \/ \E c \in Conns : OnMessage(c)
    \/ \E c \in Conns : OnClose(c)
    \/ \E c \in Conns : OnError(c)
    \/ \E t \in tasks : DbCreateLog(t)
    \/ \E t \in tasks : DbTransaction(t)
    \/ \E t \in tasks : ResumeCheckin(t)
    \/ \E t \in timers : TimerFire(t)
    \/ \E s \in Students \cup {NULL}, iid \in 0..(Len(interventions) + 1),
          text \in {"ext", NULL} : OnApprove(s, iid, text)
    \/ \E iid \in 0..(Len(interventions) + 1), text \in {"ext", NULL} :
          OnManualApprove(iid, text)
    \/ \E t \in tasks : DbUpdate(t)
    \/ \E t \in tasks : ResumeDecision(t)
    \/ \E t \in tasks : DbUpdateMany(t)
    \/ \E t \in tasks : ResumeRemedial(t)

Spec == Init /\ [][Next]_vars

\* The offline fallback: one session that checks in and may go away before the
\* review decision fires, its completion report, and pull queries at any time
PullScopes ==
    { Quota(MaxConns - 1, MaxConnects - 1, MaxCheckins, MaxRemedials, 0, 0,
            MaxDbFailures, MaxPulls, CheckinInputs) }

InitPull == Start(PullScopes)

NextPull ==
    \/ \E c \in Conns : OnConnection(c)
    \/ \E c \in Conns : OnMessage(c)
    \/ \E c \in Conns : OnClose(c)
    \/ \E c \in Conns : OnError(c)
    \/ \E t \in tasks : DbCreateLog(t)
    \/ \E t \in tasks : DbTransaction(t)
    \/ \E t \in tasks : ResumeCheckin(t)
    \/ \E t \in timers : TimerFire(t)
    \/ \E t \in tasks : ResumeDecision(t)
    \/ \E t \in tasks : DbUpdateMany(t)
    \/ \E t \in tasks : ResumeRemedial(t)
    \/ \E header \in Headers, s \in Students : OnPendingQuery(header, s)

SpecPull == InitPull /\ [][NextPull]_vars

\* The build without tables, under either review policy and with or without
\* the address of the external service: two check-ins on one connection and
\* one approve callback
NoDbScopes ==
    { Quota(MaxConns - 1, MaxConnects - 1, MaxCheckins + 1, 0, 0, MaxHttp, 0, 0,
            CheckinInputs) @@ [simulation |-> sim, n8nUrl |-> url] :
        sim \in BOOLEAN, url \in BOOLEAN }

InitNoDb == Start(NoDbScopes)

NextNoDb ==
    \/ \E c \in Conns : OnConnection(c)
    \/ \E c \in Conns : OnMessageNoDb(c)
    \/ \E c \in Conns : OnClose(c)
    \/ \E c \in Conns : OnError(c)
    \/ \E t \in tasks : AxiosAnswer(t)
    \/ \E t \in timers : TimerFireNoDb(t)
    \/ \E s \in Students \cup {NULL}, iid \in {0, StubInterventionId},
          text \in {"ext", NULL} : OnApproveNoDb(s, iid, text)

SpecNoDb == InitNoDb /\ [][NextNoDb]_vars

\* Decisions that come late: one session that checks in and reports the
\* completion, and one HTTP approval request at any time, also after the
\* completion
LateScopes ==
    { Quota(MaxConns - 1, MaxConnects - 1, MaxCheckins, MaxRemedials, 0, MaxHttp,
            MaxDbFailures, 0, CheckinInputs) }

InitLate == Start(LateScopes)

SpecLate == InitLate /\ [][Next]_vars

\* =============================================================== claims
\* Positions of the frames sent on c
Frames(c) == DOMAIN out[c]

\* The connection c has just run its close handler in this step
Closes(c) == readyState[c] # "CLOSED" /\ readyState'[c] = "CLOSED"

\* The connection c has just received a message of one of the types
Receives(c, types) ==
    /\ Len(recv'[c]) = Len(recv[c]) + 1
    /\ recv'[c][Len(recv'[c])] \in types

\* C1: the close of a connection does not remove the registry entry of an
\* identity that is bound to another connection (a stale close leaves the
\* newer binding reachable through get)
C1_StaleCloseKeepsNewerBinding ==
    [][\A c \in Conns, s \in Students :
          (Closes(c) /\ getConnection(connections, s) \notin {NoConn, c})
          => getConnection(connections', s) = getConnection(connections, s)]_vars

\* C2: whenever a review decision is delivered for an identity that has a
\* session with an open channel at that instant, the event is written to such
\* a session and delivery reports true; delivery reports false only when the
\* identity has no open session
C2_DeliveredWhenSessionOpen ==
    \A k \in DOMAIN sendLog :
        LET e == sendLog[k]
        IN /\ e.openFor # {} => (e.sent /\ e.conn \in e.openFor)
           /\ ~e.sent => e.openFor = {}

\* C3: no connection is the registry entry of two identities
C3_ConnectionInOneEntry ==
    \A s1, s2 \in Students :
        (s1 # s2 /\ connections[s1] # NoConn) => connections[s1] # connections[s2]

\* C4: once the close of a connection has been handled, no registry entry
\* refers to that connection
C4_ClosedNotRegistered ==
    \A c \in Conns : readyState[c] = "CLOSED" => \A s \in Students : connections[s] # c

\* The numbers of the "connect" messages of c that were rejected
RejectedAt(c) == {out[c][k].seq : k \in {j \in Frames(c) : out[c][j].text = "Invalid token"}}

\* C5: after a "connect" with a rejected credential, no later message of the
\* session is processed: none is answered with anything but an error and none
\* starts a handler, so none binds the connection or creates records
C5_RejectedSessionInert ==
    \A c \in Conns : \A n \in RejectedAt(c) :
        /\ \A k \in Frames(c) : out[c][k].seq > n => out[c][k].type = "error"
        /\ \A t \in tasks : t.conn = c => t.seq < n

\* C6: a "daily_checkin" or "remedial_completed" received on a session without
\* an identity is answered with one error frame and changes nothing else
C6_UnauthenticatedRejected ==
    [][\A c \in Conns :
          (Receives(c, {"daily_checkin", "remedial_completed"}) /\ studentId[c] = NULL)
          => /\ out' = WsSend(out, readyState, c,
                              Frame("error", Len(recv'[c]), NULL, 0, "Not authenticated"))
             /\ UNCHANGED <<readyState, destroyed, studentId, connections, tasks,
                            timers, dailyLogs, interventions, sendLog, pulls, webhooks>>]_vars

\* Witness of C6: both domain messages have been refused on sessions without
\* an identity
C6_Witness ==
    \A type \in {"daily_checkin", "remedial_completed"} :
        \E c \in Conns : \E k \in Frames(c) :
            /\ out[c][k].text = "Not authenticated"
            /\ recv[c][out[c][k].seq] = type

\* C7: the responses on one connection are sent in the order in which their
\* messages were received
C7_ResponsesInOrder ==
    \A c \in Conns : \A j, k \in Frames(c) :
        (j < k /\ out[c][j].seq # 0 /\ out[c][k].seq # 0) => out[c][j].seq <= out[c][k].seq

\* C8: at most one intervention_assigned event is produced for an intervention
C8_AtMostOneDecisionEvent ==
    \A i \in DOMAIN interventions :
        Cardinality({k \in DOMAIN sendLog :
                        sendLog[k].interventionId = i /\ sendLog[k].sent}) <= 1

\* C9: a completion report for an intervention that is already completed
\* matches nothing: it writes no row and its count is 0 (or the call rejects)
C9_CompletedNotAcceptedAgain ==
    [][\A t \in tasks :
          (/\ t.kind = "remedial" /\ t.phase = "updateMany" /\ t \notin tasks'
           /\ t.interventionId \in DOMAIN interventions
           /\ interventions[t.interventionId].completed)
          => /\ interventions' = interventions
             /\ \A u \in tasks' \ tasks : u.failed \/ u.count = 0]_vars

\* The report t is for no row, for another identity's row, or for a row
\* without an assigned task
NotReportable(t) ==
    \/ t.interventionId \notin DOMAIN interventions
    \/ interventions[t.interventionId].studentId # t.studentId
    \/ ~interventions[t.interventionId].taskAssigned

\* C10: a completion report for an unknown intervention, for one of another
\* identity or for one without an assigned task writes no row and matches
\* nothing; its answer is an error frame; neither step closes the session
C10_BadReportRejected ==
    [][\A t \in tasks :
          (t.kind = "remedial" /\ t \notin tasks')
          => /\ (t.phase = "updateMany" /\ NotReportable(t))
                => /\ interventions' = interventions
                   /\ readyState' = readyState
                   /\ \A u \in tasks' \ tasks :
                         u.phase = "resume" /\ (u.failed \/ u.count = 0)
             /\ (t.phase = "resume" /\ (t.failed \/ t.count = 0))
                => /\ interventions' = interventions
                   /\ readyState' = readyState
                   /\ Len(out'[t.conn]) = Len(out[t.conn]) + 1
                   /\ out'[t.conn][Len(out'[t.conn])].type = "error"
                   /\ out'[t.conn][Len(out'[t.conn])].seq = t.seq]_vars

\* Witness of C10: a session of one identity has been refused the completion
\* of an assigned intervention of another identity, and the row is untouched
C10_Witness ==
    \E c \in Conns : \E k \in Frames(c) :
        LET f == out[c][k]
        IN /\ f.text = "Invalid intervention or not assigned"
           /\ f.interventionId \in DOMAIN interventions
           /\ interventions[f.interventionId].studentId # f.studentId
           /\ interventions[f.interventionId].taskAssigned
           /\ ~interventions[f.interventionId].completed

\* A decision path has just called sendToStudent in this step
Delivers == Len(sendLog') = Len(sendLog) + 1

\* C11: at the instant a decision path attempts the delivery of
\* intervention_assigned for an intervention, the row of that intervention
\* has taskAssigned = true and holds the assignedTasks being delivered
C11_PersistedBeforeDelivery ==
    [][Delivers =>
          LET e == sendLog'[Len(sendLog')]
          IN /\ e.interventionId \in DOMAIN interventions
             /\ interventions[e.interventionId].taskAssigned
             /\ interventions[e.interventionId].assignedTasks = e.assignedTasks]_vars

\* The connection d has been bound to the identity s at some time
EverBound(d, s) ==
    \E k \in Frames(d) : out[d][k].type = "connected" /\ out[d][k].studentId = s

\* No connection that was ever bound to s is open
Offline(s) == \A d \in Conns : EverBound(d, s) => readyState[d] # "OPEN"

\* The interventions whose scheduled decision was not delivered
Undelivered ==
    {sendLog[k].interventionId :
        k \in {j \in DOMAIN sendLog : sendLog[j].source = "timer" /\ ~sendLog[j].sent}}

\* A pending-interventions query has just been answered
Pulled == Len(pulls') = Len(pulls) + 1

\* The interventionIds of an answer
Listed(answer) ==
    {answer.pendingInterventions[k].interventionId :
        k \in DOMAIN answer.pendingInterventions}

ToldPending(c, i) ==
    \E k \in Frames(c) :
        /\ out[c][k].type = "checkin_result" /\ out[c][k].written
        /\ out[c][k].text = "Pending Mentor Review"
        /\ out[c][k].interventionId = i

\* C13: the delivery that the local simulation attempts for an intervention
\* (its only one) reaches the session that was told to wait for it: when the
\* timer's decision is delivered while that session is open, is authenticated
\* as the identity and is the identity's latest bound connection,
\* intervention_assigned with the same interventionId is written on it
C13_ScheduledDecisionReachesSession ==
    [][Delivers =>
          LET e == sendLog'[Len(sendLog')]
          IN e.source = "timer" =>
                \A c \in Conns :
                    (/\ readyState[c] = "OPEN"
                     /\ studentId[c] = e.studentId
                     /\ lastBind[e.studentId] = c
                     /\ ToldPending(c, e.interventionId))
                    => /\ e.sent /\ e.conn = c
                       /\ Len(out'[c]) = Len(out[c]) + 1
                       /\ out'[c][Len(out'[c])].type = "intervention_assigned"
                       /\ out'[c][Len(out'[c])].interventionId = e.interventionId
                       /\ out'[c][Len(out'[c])].written]_vars

\* C14: sendToStudent reports true exactly when the registry holds a
\* connection for the identity and that connection is OPEN at the call; then
\* one frame is written on that connection and on no other; when it reports
\* false nothing is written on any connection; the registry is unchanged
C14_SendContract ==
    [][Delivers =>
          LET e == sendLog'[Len(sendLog')]
              c == connections[e.studentId]
          IN /\ e.sent <=> (c # NoConn /\ readyState[c] = "OPEN")
             /\ e.sent => /\ e.conn = c
                          /\ Len(out'[c]) = Len(out[c]) + 1
                          /\ SubSeq(out'[c], 1, Len(out[c])) = out[c]
                          /\ out'[c][Len(out'[c])].written
                          /\ out'[c][Len(out'[c])].type = "intervention_assigned"
                          /\ \A d \in Conns \ {c} : out'[d] = out[d]
             /\ ~e.sent => out' = out
             /\ connections' = connections]_vars

\* Witness of C14: one call reported false and one reported true, its frame
\* being the last written on its connection
C14_Witness ==
    \E j, k \in DOMAIN sendLog :
        /\ ~sendLog[j].sent
        /\ sendLog[k].sent
        /\ out[sendLog[k].conn][Len(out[sendLog[k].conn])].type = "intervention_assigned"

\* C15: a lookup by identity returns no connection or one connection, and the
\* connection it returns is the one of the latest addConnection for that
\* identity (binding over an entry replaces it)
C15_LookupIsLatestBind ==
    \A s \in Students :
        /\ getConnection(connections, s) \in Conns \cup {NoConn}
        /\ getConnection(connections, s) # NoConn
              => getConnection(connections, s) = lastBind[s]

\* Witness of C15: an identity was bound to one connection and then to
\* another, and the lookup returns the second
C15_Witness ==
    \E s \in Students : \E c, d \in Conns :
        /\ c # d
        /\ EverBound(c, s) /\ EverBound(d, s)
        /\ lastBind[s] = d
        /\ getConnection(connections, s) = d

\* C16: the status derived from (quizScore, focusMinutes) is "On Track" exactly
\* when quizScore >= 7 and focusMinutes >= 60, and "Pending Mentor Review"
\* otherwise: in every stored check-in, and in the branch every check-in takes
C16_StatusFromThresholds ==
    /\ \A k \in DOMAIN dailyLogs :
          dailyLogs[k].status =
              IF dailyLogs[k].quizScore >= 7 /\ dailyLogs[k].focusMinutes >= 60
              THEN "On Track" ELSE "Pending Mentor Review"
    /\ \A t \in tasks :
          /\ t.phase = "create" => (t.quizScore >= 7 /\ t.focusMinutes >= 60)
          /\ t.phase = "transaction" => (t.quizScore < 7 \/ t.focusMinutes < 60)

\* Witness of C16: check-ins on either side of a threshold have been stored,
\* here the one with the quiz at its threshold and the focus one minute short
C16_Witness ==
    \E k \in DOMAIN dailyLogs :
        /\ dailyLogs[k].quizScore = 7 /\ dailyLogs[k].focusMinutes = 59
        /\ dailyLogs[k].status = "Pending Mentor Review"

\* The awaited write of the check-in t has just been answered by the database
Persists(t) ==
    /\ t.kind = "checkin" /\ t.phase \in {"create", "transaction"}
    /\ t \in tasks /\ t \notin tasks'

\* C17: a check-in whose write succeeds adds exactly one row to daily_logs
\* (its identity, scores and status); it adds exactly one row to interventions,
\* of the same identity with taskAssigned = false and completed = false, when
\* its status is "Pending Mentor Review", and none when it is "On Track";
\* nothing else adds a row to either table
C17_RecordsPerCheckin ==
    [][/\ \A t \in tasks : Persists(t) =>
             \A u \in tasks' \ tasks :
                 IF u.failed
                 THEN dailyLogs' = dailyLogs /\ interventions' = interventions
                 ELSE /\ Len(dailyLogs') = Len(dailyLogs) + 1
                      /\ SubSeq(dailyLogs', 1, Len(dailyLogs)) = dailyLogs
                      /\ dailyLogs'[Len(dailyLogs')].studentId = t.studentId
                      /\ dailyLogs'[Len(dailyLogs')].quizScore = t.quizScore
                      /\ dailyLogs'[Len(dailyLogs')].focusMinutes = t.focusMinutes
                      /\ IF dailyLogs'[Len(dailyLogs')].status = "Pending Mentor Review"
                         THEN /\ Len(interventions') = Len(interventions) + 1
                              /\ SubSeq(interventions', 1, Len(interventions))
                                    = interventions
                              /\ LET r == interventions'[Len(interventions')]
                                 IN /\ r.studentId = t.studentId
                                    /\ ~r.taskAssigned
                                    /\ ~r.completed
                              /\ u.interventionId = Len(interventions')
                         ELSE interventions' = interventions
       /\ (Len(dailyLogs') # Len(dailyLogs) \/ Len(interventions') # Len(interventions))
             => \E t \in tasks : Persists(t)]_vars

\* Witness of C17: an on-track check-in and one that is not have both been
\* stored: two check-in rows and one intervention row, not assigned
C17_Witness ==
    /\ Len(dailyLogs) = 2
    /\ {dailyLogs[1].status, dailyLogs[2].status}
          = {"On Track", "Pending Mentor Review"}
    /\ Len(interventions) = 1
    /\ ~interventions[1].taskAssigned /\ ~interventions[1].completed
    /\ \E k \in 1..2 : /\ dailyLogs[k].status = "Pending Mentor Review"
                        /\ dailyLogs[k].studentId = interventions[1].studentId

\* The check-in rows that wait for a review, in the order of their creation
PendingLogs(logs) ==
    SelectSeq(logs, LAMBDA r : r.status = "Pending Mentor Review")

\* Every check-in row that waits for a review has its intervention row, and
\* every intervention row its check-in row, of the same identity
Paired(logs, rows) ==
    /\ Len(PendingLogs(logs)) = Len(rows)
    /\ \A k \in DOMAIN rows : PendingLogs(logs)[k].studentId = rows[k].studentId

\* C18: no state shows the check-in row of a check-in that is not on track
\* without its intervention row, or the reverse; when the transaction rejects,
\* neither row is written, the handler answers the sender with the generic
\* failure and schedules no review
C18_NoPartialCheckin ==
    [][/\ Paired(dailyLogs', interventions')
       /\ \A t \in tasks :
             /\ (Persists(t) /\ t.phase = "transaction"
                 /\ \E u \in tasks' \ tasks : u.failed)
                => /\ dailyLogs' = dailyLogs /\ interventions' = interventions
                   /\ timers' = timers /\ out' = out
                   /\ \A u \in tasks' \ tasks : u.phase = "resume"
             /\ (t.kind = "checkin" /\ t.phase = "resume" /\ t.failed
                 /\ t \notin tasks')
                => /\ dailyLogs' = dailyLogs /\ interventions' = interventions
                   /\ timers' = timers
                   /\ tasks' = tasks \ {t}
                   /\ Len(out'[t.conn]) = Len(out[t.conn]) + 1
                   /\ out'[t.conn][Len(out'[t.conn])].type = "error"
                   /\ out'[t.conn][Len(out'[t.conn])].text
                         = "Failed to process daily check-in"
                   /\ out'[t.conn][Len(out'[t.conn])].seq = t.seq]_vars

\* Witness of C18: the transaction of a check-in that is not on track has
\* rejected, and neither table holds a row of it
C18_Witness ==
    \E t \in tasks :
        /\ t.kind = "checkin" /\ t.phase = "resume" /\ t.failed
        /\ t.quizScore < 7 \/ t.focusMinutes < 60
        /\ dailyLogs = <<>> /\ interventions = <<>> /\ timers = {}

\* The session c has just been told that its check-in waits for a review
AnswersPending(c) ==
    /\ Receives(c, {"daily_checkin"})
    /\ Len(out'[c]) = Len(out[c]) + 1
    /\ out'[c][Len(out'[c])].type = "checkin_result"
    /\ out'[c][Len(out'[c])].text = "Pending Mentor Review"

C20_EntryOnlyByAcceptedConnect ==
    [][\A s \in Students, c \in Conns :
          (connections'[s] = c /\ connections[s] # c)
          => /\ Receives(c, {"connect"})
             /\ studentId'[c] = s
             /\ Len(out'[c]) = Len(out[c]) + 1
             /\ out'[c][Len(out'[c])].type = "connected"
             /\ out'[c][Len(out'[c])].studentId = s
             /\ out'[c][Len(out'[c])].seq = Len(recv'[c])
             /\ out'[c][Len(out'[c])].written]_vars

\* C21: a message whose envelope cannot be parsed, or whose type is unknown,
\* is answered with one error frame on its own connection (written when the
\* socket is OPEN) and changes nothing else: the socket's readyState, the
\* session's identity, the registry, the suspended handlers, the timers and
\* both tables stay as they were, whatever the session's state
C21_BadFrameOnlyAnswered ==
    [][\A c \in Conns :
          Receives(c, {"malformed", "unknown"})
          => /\ out' = WsSend(out, readyState, c,
                              Frame("error", Len(recv'[c]), NULL, 0,
                                    IF recv'[c][Len(recv'[c])] = "malformed"
                                    THEN "Invalid message format"
                                    ELSE "Unknown message type"))
             /\ out'[c][Len(out'[c])].written = (readyState'[c] = "OPEN")
             /\ UNCHANGED <<readyState, destroyed, studentId, connections, lastBind,
                            tasks, timers, dailyLogs, interventions, sendLog, pulls,
                            webhooks, httpCount, dbFailures>>]_vars

\* Witness of C21: an authenticated session has received such a message, the
\* error frame was written, and the session is still open, bound and registered
C21_Witness ==
    \E c \in Conns : \E k \in Frames(c) :
        LET f == out[c][k]
        IN /\ f.text \in {"Invalid message format", "Unknown message type"}
           /\ f.written
           /\ recv[c][f.seq] \in {"malformed", "unknown"}
           /\ readyState[c] = "OPEN"
           /\ studentId[c] # NULL
           /\ connections[studentId[c]] = c

\* C22: when an intervention_assigned event is written for an intervention,
\* the checkin_result response that announces that intervention has already
\* been sent
C22_DecisionAfterCheckinResult ==
    [][(Delivers /\ sendLog'[Len(sendLog')].sent)
          => \E c \in Conns : \E k \in Frames(c) :
                /\ out[c][k].type = "checkin_result"
                /\ out[c][k].interventionId = sendLog'[Len(sendLog')].interventionId]_vars

\* C23: a row of table interventions only moves pending -> assigned ->
\* completed: after every step each row with completed = true has
\* taskAssigned = true, no row disappears, and neither taskAssigned nor
\* completed of a row goes from true back to false
C23_FlagsOnlyAdvance ==
    [][/\ \A i \in DOMAIN interventions' :
             interventions'[i].completed => interventions'[i].taskAssigned
       /\ \A i \in DOMAIN interventions :
             /\ i \in DOMAIN interventions'
             /\ interventions[i].taskAssigned => interventions'[i].taskAssigned
             /\ interventions[i].completed => interventions'[i].completed]_vars

\* Witness of C23: a row that is completed has been written by a review
\* decision again after its completion (three writes: decision, completion,
\* decision) and still has both flags
C23_Witness ==
    \E i \in DOMAIN interventions :
        /\ interventions[i].completed
        /\ interventions[i].taskAssigned
        /\ interventions[i].updatedAt >= 3
        /\ interventions[i].assignedTasks \in {"ext", "manual"}

\* C24: every intervention_assigned event that has been written went to the
\* connection registered for the identity that owns the row of its
\* intervention
C24_EventOnlyToOwner ==
    \A k \in DOMAIN sendLog :
        sendLog[k].sent
        => interventions[sendLog[k].interventionId].studentId = sendLog[k].studentId

\* C25: once a row has completed = true, no step changes its assignedTasks,
\* and no review decision (timer, approve or manual-approve) gets past its
\* update of that row to the delivery of a further intervention_assigned event
C25_CompletedNotReassigned ==
    [][\A i \in DOMAIN interventions :
          interventions[i].completed
          => /\ interventions'[i].assignedTasks = interventions[i].assignedTasks
             /\ ~\E t \in tasks' \ tasks :
                    /\ t.kind \in {"timer", "approve", "manual"}
                    /\ t.phase = "resume"
                    /\ t.interventionId = i]_vars

\* C26: the pending-interventions query hands records of an identity only to
\* a caller whose verified credential encodes that identity
C26_PullOnlyOwnRecords ==
    \A k \in DOMAIN pulls :
        pulls[k].pendingInterventions # <<>> => pulls[k].caller = pulls[k].studentId

====
